---- MODULE Spec2Model ----
(***************************************************************************)
(* A model of src/tes.py: the paginated, time-windowed review fetcher      *)
(* (fetch_reviews and its caller in __main__), the monthly sampler         *)
(* (monthly_sample) and the monthly aggregator (monthly_summary).          *)
(*                                                                         *)
(* Optional values (a dict key that may be missing, a variable that may be *)
(* unassigned) are sequences of length 0 or 1: <<>> is "missing", <<v>> is *)
(* "present with value v".                                                 *)
(***************************************************************************)
EXTENDS Integers, Sequences, FiniteSets, TLC

\* ------------------------------------------------------------------ bounds
\* Longest upstream feed (number of review entries the server holds).
MaxFeed == 3
\* Largest creation timestamp of an entry and largest window bound.
MaxTs == 2
\* Largest num_per_page.
MaxPerPage == 2
\* Longest frame (number of rows) handed to the sampler and the aggregator.
MaxRows == 3
\* Number of calendar months a row may fall in; month k is the k-th in calendar order.
MaxMonth == 2
\* Largest votes_up of a row.
MaxVotes == 1
\* Largest n_per_month.
MaxN == 2
\* Largest value rng.randint returns (10**9 in the source).
MaxSubSeed == 1

\* The start sentinel of the cursor, "*": cursors are opaque tokens, modelled as
\* the number of feed entries that precede the page the token stands for.
StartCursor == 0

\* The fetch sessions (calls of fetch_reviews) that may be interleaved.
Sessions == {"s1", "s2"}

VARIABLES
    feed,       \* the upstream feed: a sequence of optional timestamps, newest first when sorted
    start_ts,   \* [session -> epoch seconds]: the window's inclusive lower bound
    end_ts,     \* [session -> epoch seconds]: the window's exclusive upper bound
    per_page,   \* [session -> page size]
    pc,         \* [session -> the statement of fetch_reviews / __main__ to execute next]
    cursor,     \* [session -> params["cursor"]]
    resp,       \* [session -> the latest response r / data]
    idx,        \* [session -> position of the for loop in reviews]
    yielded,    \* [session -> the set of records the generator has yielded]
    rows,       \* [session -> optional: the caller's rows, assigned when list(...) returns]
    sent,       \* [session -> optional: the cursor the latest request carried]
    faithful,   \* [session -> every response so far was a success whose cursor names the next page]
    df,             \* the DataFrame handed to monthly_sample / monthly_summary: a sequence of rows
    n_per_month,    \* monthly_sample's n_per_month
    by_top_helpful, \* monthly_sample's by_top_helpful
    rng,            \* random.Random(seed): the k-th value is what the k-th rng.randint(0, 10**9) returns
    fpc,            \* where the caller of monthly_sample / monthly_summary stands
    sampled,        \* the frame monthly_sample returned
    subseeds,       \* [month -> the random_state its group was sampled with]
    prev,           \* optional: sampled and subseeds of the run before a month was removed
    removed,        \* optional: the month whose rows the caller removed between two runs
    agg             \* the frame monthly_summary returned

fetchVars == <<feed, start_ts, end_ts, per_page, pc, cursor, resp, idx, yielded, rows, sent, faithful>>

frameVars == <<df, n_per_month, by_top_helpful, rng, fpc, sampled, subseeds, prev, removed, agg>>

vars == <<feed, start_ts, end_ts, per_page, pc, cursor, resp, idx, yielded, rows, sent, faithful,
          df, n_per_month, by_top_helpful, rng, fpc, sampled, subseeds, prev, removed, agg>>

Min(a, b) == IF a <= b THEN a ELSE b

\* An optional timestamp field of an upstream entry.
RawTimestamps == {<<>>} \cup {<<t>> : t \in 1..MaxTs}

Feeds == UNION {[1..n -> RawTimestamps] : n \in 0..MaxFeed}

\* int(rv.get("timestamp_created", 0))
TimestampCreated(rv) ==
    IF rv.timestamp_created = <<>> THEN 0 ELSE rv.timestamp_created[1]

\* A filter that keeps the window's upper bound (an off-by-one of the comparison).
InWindowClosed(ts, s) == start_ts[s] <= ts /\ ts <= end_ts[s]

\* start_ts <= ts < end_ts
InWindow(ts, s) == start_ts[s] <= ts /\ ts < end_ts[s]

\* The page the server returns for cursor c and page size n.
Page(c, n) ==
    [i \in 1..Min(n, Len(feed) - c) |->
        [recommendationid |-> c + i, timestamp_created |-> feed[c + i]]]

\* The cursor values a response may carry: none, or any position of the feed.
ResponseCursors == {<<>>} \cup {<<c>> : c \in 0..Len(feed)}

NoResponse == [ok |-> TRUE, reviews |-> <<>>, cursor |-> <<>>]

\* The record fetch_reviews yields for entry rv.
Record(rv) ==
    [recommendationid |-> rv.recommendationid, timestamp_created |-> TimestampCreated(rv)]

\* ------------------------------------------------------------ fetch_reviews

\* r = requests.get(url, params=params, timeout=30): the server answers the
\* request with a non-success status, or with the page of the cursor and any cursor.
Get(s) ==
    /\ pc[s] = "get"
    /\ \E ok \in BOOLEAN, cur \in ResponseCursors :
          LET page == Page(cursor[s], per_page[s]) IN
          /\ resp' = [resp EXCEPT ![s] =
                        IF ok THEN [ok |-> TRUE, reviews |-> page, cursor |-> cur]
                        ELSE [ok |-> FALSE, reviews |-> <<>>, cursor |-> <<>>]]
          /\ faithful' = [faithful EXCEPT ![s] =
                        @ /\ ok /\ cur = <<cursor[s] + Len(page)>>]
    /\ sent' = [sent EXCEPT ![s] = <<cursor[s]>>]
    /\ pc' = [pc EXCEPT ![s] = "raise_for_status"]
    /\ UNCHANGED <<feed, start_ts, end_ts, per_page, cursor, idx, yielded, rows, frameVars>>

\* A fetcher that ignores the response's status.
IgnoreStatus(s) ==
    /\ pc[s] = "raise_for_status"
    /\ pc' = [pc EXCEPT ![s] = "reviews"]
    /\ UNCHANGED <<feed, start_ts, end_ts, per_page, cursor, resp, idx, yielded, rows, sent, faithful, frameVars>>

\* r.raise_for_status(): a non-success response raises out of the generator and
\* out of list(...) in the caller, which has no handler.
RaiseForStatus(s) ==
    /\ pc[s] = "raise_for_status"
    /\ pc' = [pc EXCEPT ![s] = IF resp[s].ok THEN "reviews" ELSE "raised"]
    /\ UNCHANGED <<feed, start_ts, end_ts, per_page, cursor, resp, idx, yielded, rows, sent, faithful, frameVars>>

\* A fetcher that pages on after an empty page instead of breaking.
CheckEmptyNoBreak(s) ==
    /\ pc[s] = "reviews"
    /\ pc' = [pc EXCEPT ![s] = IF resp[s].reviews = <<>> THEN "advance" ELSE "for"]
    /\ idx' = [idx EXCEPT ![s] = 1]
    /\ UNCHANGED <<feed, start_ts, end_ts, per_page, cursor, resp, yielded, rows, sent, faithful, frameVars>>

\* reviews = data.get("reviews", []); if not reviews: break
CheckEmpty(s) ==
    /\ pc[s] = "reviews"
    /\ pc' = [pc EXCEPT ![s] = IF resp[s].reviews = <<>> THEN "done" ELSE "for"]
    /\ idx' = [idx EXCEPT ![s] = 1]
    /\ UNCHANGED <<feed, start_ts, end_ts, per_page, cursor, resp, yielded, rows, sent, faithful, frameVars>>

\* One iteration of "for rv in reviews": yield the record iff it is in the window.
ForReview(s) ==
    /\ pc[s] = "for"
    /\ idx[s] <= Len(resp[s].reviews)
    /\ LET rv == resp[s].reviews[idx[s]] IN
          yielded' = [yielded EXCEPT ![s] =
                        IF InWindow(TimestampCreated(rv), s) THEN @ \cup {Record(rv)} ELSE @]
    /\ idx' = [idx EXCEPT ![s] = @ + 1]
    /\ UNCHANGED <<feed, start_ts, end_ts, per_page, pc, cursor, resp, rows, sent, faithful, frameVars>>

\* oldest_ts_in_batch = int(reviews[-1].get("timestamp_created", 0))
OldestTsInBatch(s) == TimestampCreated(resp[s].reviews[Len(resp[s].reviews)])

\* A stop test that also stops on a page ending exactly at the window's start.
BelowWindowInclusive(s) == OldestTsInBatch(s) <= start_ts[s]

\* oldest_ts_in_batch < start_ts
BelowWindow(s) == OldestTsInBatch(s) < start_ts[s]

\* if oldest_ts_in_batch < start_ts: break
StopCheck(s) ==
    /\ pc[s] = "for"
    /\ idx[s] > Len(resp[s].reviews)
    /\ pc' = [pc EXCEPT ![s] = IF BelowWindow(s) THEN "done" ELSE "advance"]
    /\ UNCHANGED <<feed, start_ts, end_ts, per_page, cursor, resp, idx, yielded, rows, sent, faithful, frameVars>>

\* data.get("cursor", params["cursor"])
NextCursor(s) == IF resp[s].cursor = <<>> THEN cursor[s] ELSE resp[s].cursor[1]

\* A fetcher whose params dict is shared by all calls.
AdvanceShared(s) ==
    /\ pc[s] = "advance"
    /\ cursor' = [t \in Sessions |-> NextCursor(s)]
    /\ pc' = [pc EXCEPT ![s] = "sleep"]
    /\ UNCHANGED <<feed, start_ts, end_ts, per_page, resp, idx, yielded, rows, sent, faithful, frameVars>>

\* params["cursor"] = data.get("cursor", params["cursor"]); params is local to the call.
Advance(s) ==
    /\ pc[s] = "advance"
    /\ cursor' = [cursor EXCEPT ![s] = NextCursor(s)]
    /\ pc' = [pc EXCEPT ![s] = "sleep"]
    /\ UNCHANGED <<feed, start_ts, end_ts, per_page, resp, idx, yielded, rows, sent, faithful, frameVars>>

\* time.sleep(sleep_sec)
Sleep(s) ==
    /\ pc[s] = "sleep"
    /\ pc' = [pc EXCEPT ![s] = "get"]
    /\ UNCHANGED <<feed, start_ts, end_ts, per_page, cursor, resp, idx, yielded, rows, sent, faithful, frameVars>>

\* rows = list(fetch_reviews(...)): assigned once the generator is exhausted.
Collect(s) ==
    /\ pc[s] = "done"
    /\ rows' = [rows EXCEPT ![s] = <<yielded[s]>>]
    /\ pc' = [pc EXCEPT ![s] = "returned"]
    /\ UNCHANGED <<feed, start_ts, end_ts, per_page, cursor, resp, idx, yielded, sent, faithful, frameVars>>

Step(s) ==
    \/ Get(s)
    \/ RaiseForStatus(s)
    \/ CheckEmpty(s)
    \/ ForReview(s)
    \/ StopCheck(s)
    \/ Advance(s)
    \/ Sleep(s)
    \/ Collect(s)

Next == \E s \in Sessions : Step(s)

\* The state of the sessions in `active` at the call of fetch_reviews; the
\* others never run.
InitSessions(active) ==
    /\ start_ts \in [Sessions -> 0..MaxTs]
    /\ end_ts \in [Sessions -> 0..MaxTs]
    /\ \A s \in Sessions : start_ts[s] <= end_ts[s]
    /\ per_page \in [Sessions -> 1..MaxPerPage]
    /\ \A s \in Sessions \ active : start_ts[s] = 0 /\ end_ts[s] = 0 /\ per_page[s] = 1
    /\ pc = [s \in Sessions |-> IF s \in active THEN "get" ELSE "idle"]
    /\ cursor = [s \in Sessions |-> StartCursor]
    /\ resp = [s \in Sessions |-> NoResponse]
    /\ idx = [s \in Sessions |-> 1]
    /\ yielded = [s \in Sessions |-> {}]
    /\ rows = [s \in Sessions |-> <<>>]
    /\ sent = [s \in Sessions |-> <<>>]
    /\ faithful = [s \in Sessions |-> TRUE]

\* No frame is being sampled or summarised.
FramesIdle ==
    /\ df = <<>>
    /\ n_per_month = 0
    /\ by_top_helpful = FALSE
    /\ rng = <<>>
    /\ fpc = "idle"
    /\ sampled = <<>>
    /\ subseeds = <<>>
    /\ prev = <<>>
    /\ removed = <<>>
    /\ agg = <<>>

\* One fetch session, as __main__ runs it.
Init ==
    /\ feed \in Feeds
    /\ InitSessions({"s1"})
    /\ FramesIdle

Spec == Init /\ [][Next]_vars

\* The program keeps executing: a session that can take a step eventually does.
FairSpec == Spec /\ WF_vars(Next)

\* Two interleaved fetch sessions over one feed whose entries all lie in both windows.
InitTwo ==
    /\ feed \in {f \in Feeds : \A i \in DOMAIN f : f[i] = <<MaxTs - 1>>}
    /\ InitSessions(Sessions)
    /\ \A s \in Sessions : start_ts[s] = MaxTs - 1 /\ end_ts[s] = MaxTs /\ per_page[s] = MaxPerPage
    /\ FramesIdle

SpecSessions == InitTwo /\ [][Next]_vars

\* ----------------------------------------------------------- monthly_sample

\* The frames of at most MaxRows rows; recommendationid is the row's position in
\* the frame first handed over and stands for the columns that identify a review.
Frames(votes, flags) ==
    UNION {{[i \in 1..n |-> [recommendationid |-> i, month |-> ms[i],
                             votes_up |-> vs[i], voted_up |-> fs[i]]] :
                ms \in [1..n -> 1..MaxMonth], vs \in [1..n -> votes], fs \in [1..n -> flags]} :
           n \in 0..MaxRows}

\* The elements of d at the positions in keep, in d's order, from position i on.
RECURSIVE Pick(_, _, _)
Pick(d, keep, i) ==
    IF i > Len(d) THEN <<>>
    ELSE (IF i \in keep THEN <<d[i]>> ELSE <<>>) \o Pick(d, keep, i + 1)

\* df.groupby("month"): the month keys, ascending.
RECURSIVE Ascending(_)
Ascending(S) ==
    IF S = {} THEN <<>>
    ELSE LET m == CHOOSE x \in S : \A y \in S : x <= y IN <<m>> \o Ascending(S \ {m})

MonthKeys(d) == Ascending({d[i].month : i \in DOMAIN d})

\* The group of month m: its rows, in the frame's order.
Group(d, m) == Pick(d, {i \in DOMAIN d : d[i].month = m}, 1)

\* An ordering in which a row goes before the rows it ties with.
SortBeforeUnstable(a, b) ==
    \/ a.month < b.month
    \/ a.month = b.month /\ a.votes_up >= b.votes_up

\* sort_values(["month", "votes_up"], ascending=[True, False]): a goes strictly
\* before b.
SortBefore(a, b) ==
    \/ a.month < b.month
    \/ a.month = b.month /\ a.votes_up > b.votes_up

\* r put into the sorted t before the first row it goes strictly before.
Insert(r, t) ==
    LET later == {j \in DOMAIN t : SortBefore(r, t[j])}
        at == IF later = {} THEN Len(t) + 1 ELSE CHOOSE j \in later : \A k \in later : j <= k
    IN SubSeq(t, 1, at - 1) \o <<r>> \o SubSeq(t, at, Len(t))

\* The first k rows of d sorted: pandas sorts several keys with a stable
\* lexicographic sort, so rows that tie keep the frame's order.
RECURSIVE SortValues(_, _)
SortValues(d, k) == IF k = 0 THEN <<>> ELSE Insert(d[k], SortValues(d, k - 1))

\* groupby("month", group_keys=False).head(n): the rows with fewer than n rows
\* of their month before them, in the frame's order.
GroupHead(d, n) ==
    Pick(d, {i \in DOMAIN d : Cardinality({j \in 1..(i - 1) : d[j].month = d[i].month}) < n}, 1)

\* A sample size that is not capped by the group's size.
NSampleUncapped(n, len) == n

\* n_sample = min(n_per_month, len(group))
NSample(n, len) == Min(n, len)

\* group.sample(n=n, random_state=sub): the first n rows of a permutation of the
\* group that the random state fixes (here the rotation by sub).
SampleGroup(g, n, sub) == [i \in 1..n |-> g[((i - 1 + sub) % Len(g)) + 1]]

\* The loop over df.groupby("month"), from the k-th group on: the k-th group is
\* sampled with the k-th value drawn from rng.
RECURSIVE SampleGroups(_, _, _)
SampleGroups(d, keys, k) ==
    IF k > Len(keys) THEN <<>>
    ELSE LET group == Group(d, keys[k]) IN
         SampleGroup(group, NSample(n_per_month, Len(group)), rng[k])
            \o SampleGroups(d, keys, k + 1)

\* The random_state each month's group is sampled with.
SubSeeds(d) ==
    LET keys == MonthKeys(d) IN
    [m \in {keys[k] : k \in DOMAIN keys} |-> rng[CHOOSE k \in DOMAIN keys : keys[k] = m]]

\* monthly_sample(df, n_per_month, seed, by_top_helpful)
MonthlySample ==
    /\ fpc = "sample"
    /\ sampled' = IF by_top_helpful
                    THEN GroupHead(SortValues(df, Len(df)), n_per_month)
                    ELSE SampleGroups(df, MonthKeys(df), 1)
    /\ subseeds' = IF by_top_helpful THEN <<>> ELSE SubSeeds(df)
    /\ fpc' = "sampled"
    /\ UNCHANGED <<df, n_per_month, by_top_helpful, rng, prev, removed, agg, fetchVars>>

\* The caller removes every row of month m from the frame and samples again
\* with the same arguments (the same seed).
RemoveMonth(m) ==
    /\ fpc = "sampled"
    /\ removed = <<>>
    /\ \E i \in DOMAIN df : df[i].month = m
    /\ prev' = <<[sampled |-> sampled, subseeds |-> subseeds]>>
    /\ removed' = <<m>>
    /\ df' = Pick(df, {i \in DOMAIN df : df[i].month # m}, 1)
    /\ fpc' = "sample"
    /\ UNCHANGED <<n_per_month, by_top_helpful, rng, sampled, subseeds, agg, fetchVars>>

NextSample ==
    \/ MonthlySample
    \/ \E m \in 1..MaxMonth : RemoveMonth(m)

\* No fetch session runs.
FetchIdle ==
    /\ feed = <<>>
    /\ InitSessions({})

\* A call of monthly_sample: votes_up varies in top-helpful mode, the only
\* branch that reads it, and rng exists in random mode only.
InitSample ==
    /\ FetchIdle
    /\ by_top_helpful \in BOOLEAN
    /\ n_per_month \in 0..MaxN
    /\ df \in IF by_top_helpful THEN Frames(0..MaxVotes, {TRUE}) ELSE Frames({0}, {TRUE})
    /\ rng \in IF by_top_helpful THEN {<<>>} ELSE [1..MaxMonth -> 0..MaxSubSeed]
    /\ fpc = "sample"
    /\ sampled = <<>>
    /\ subseeds = <<>>
    /\ prev = <<>>
    /\ removed = <<>>
    /\ agg = <<>>

SpecSample == InitSample /\ [][NextSample]_vars

\* ---------------------------------------------------------- monthly_summary

\* A count of the group's rows instead of its recommending rows.
PositiveAllRows(group) == Len(group)

\* sum(group['voted_up'])
Positive(group) == Cardinality({i \in DOMAIN group : group[i].voted_up})

\* (positive / total_reviews).round(3), in thousandths.
PosShare(positive, total) == (2000 * positive + total) \div (2 * total)

\* The row of the k-th month key.
SummaryRow(d, keys, k) ==
    LET group == Group(d, keys[k])
        total == Len(group)
        positive == Positive(group)
    IN [month |-> keys[k], total_reviews |-> total, positive |-> positive,
        negative |-> total - positive, pos_share |-> PosShare(positive, total)]

\* monthly_summary(df): one row per group, in the order of groupby. With no
\* group the frame built from the empty dict has no total_reviews column and
\* agg["total_reviews"] raises KeyError.
MonthlySummary ==
    /\ fpc = "summary"
    /\ LET keys == MonthKeys(df) IN
          IF keys = <<>>
          THEN agg' = <<>> /\ fpc' = "KeyError"
          ELSE agg' = [k \in DOMAIN keys |-> SummaryRow(df, keys, k)] /\ fpc' = "summarised"
    /\ UNCHANGED <<df, n_per_month, by_top_helpful, rng, sampled, subseeds, prev, removed, fetchVars>>

NextSummary == MonthlySummary

\* A call of monthly_summary, which does not read votes_up.
InitSummary ==
    /\ FetchIdle
    /\ df \in Frames({0}, BOOLEAN)
    /\ by_top_helpful = FALSE
    /\ n_per_month = 0
    /\ rng = <<>>
    /\ fpc = "summary"
    /\ sampled = <<>>
    /\ subseeds = <<>>
    /\ prev = <<>>
    /\ removed = <<>>
    /\ agg = <<>>

SpecSummary == InitSummary /\ [][NextSummary]_vars

\* ------------------------------------------------------- claims: fetcher

\* The records of the feed whose timestamp lies in session s's window.
FeedInWindow(s) ==
    {Record([recommendationid |-> i, timestamp_created |-> feed[i]]) :
        i \in {j \in DOMAIN feed :
                InWindow(TimestampCreated([timestamp_created |-> feed[j]]), s)}}

FeedTs(i) == IF feed[i] = <<>> THEN 0 ELSE feed[i][1]

\* The feed is in non-increasing timestamp order.
FeedNewestFirst == \A i, j \in DOMAIN feed : i < j => FeedTs(i) >= FeedTs(j)

\* C1: every record fetch_reviews has yielded, in every state of the pagination
\* loop and for every feed, has start_ts <= timestamp_created < end_ts.
C1_YieldedInWindow ==
    \A s \in Sessions : \A r \in yielded[s] :
        start_ts[s] <= r.timestamp_created /\ r.timestamp_created < end_ts[s]

\* C1 witness: the fetch has finished having yielded a record and having
\* passed over entries newer and older than the window.
C1_Witness ==
    /\ pc["s1"] = "returned"
    /\ yielded["s1"] # {}
    /\ \E i \in DOMAIN feed : FeedTs(i) >= end_ts["s1"]
    /\ \E i \in DOMAIN feed : FeedTs(i) < start_ts["s1"]
    /\ resp["s1"].reviews # <<>>

\* C2: when the feed is newest-first and was served page after page, a
\* finished fetch has yielded exactly the feed's records inside the window.
C2_CompleteWhenSorted ==
    \A s \in Sessions :
        (pc[s] \in {"done", "returned"} /\ faithful[s] /\ FeedNewestFirst)
            => yielded[s] = FeedInWindow(s)

\* C2 witness: a sorted feed with an entry newer than the window that was
\* skipped, a record yielded, and the stop taken on a page below the window.
C2_Witness ==
    /\ pc["s1"] = "done"
    /\ faithful["s1"]
    /\ FeedNewestFirst
    /\ yielded["s1"] # {}
    /\ \E i \in DOMAIN feed : FeedTs(i) >= end_ts["s1"]
    /\ resp["s1"].reviews # <<>>
    /\ sent["s1"] # <<StartCursor>>

\* C3 (as claimed): every fetch eventually ends, whatever cursor the
\* responses carry.
C3_Terminates == <>(pc["s1"] \in {"done", "returned", "raised"})

\* An empty page has arrived in session s and the session is past the request.
EmptyPageArrived(s) ==
    /\ pc[s] \in {"raise_for_status", "reviews", "done", "returned"}
    /\ resp[s].ok
    /\ resp[s].reviews = <<>>

\* C4: once a response with zero entries has arrived, the session only moves
\* on to the end of the generator and the caller's assignment: it raises no
\* error, issues no further request (the latest request and response stay the
\* same) and yields nothing more, whatever was yielded before and whatever
\* cursor the response carries.
C4_EmptyPageHalts ==
    [][\A s \in Sessions :
        EmptyPageArrived(s) =>
            /\ yielded'[s] = yielded[s]
            /\ sent'[s] = sent[s]
            /\ resp'[s] = resp[s]
            /\ cursor'[s] = cursor[s]
            /\ pc'[s] # pc[s] =>
                  \/ pc[s] = "raise_for_status" /\ pc'[s] = "reviews"
                  \/ pc[s] = "reviews" /\ pc'[s] = "done"
                  \/ pc[s] = "done" /\ pc'[s] = "returned" /\ rows'[s] = <<yielded[s]>>]_vars

\* C4 witness: the fetch ended on an empty page that carried a cursor, after
\* earlier pages had given in-window records.
C4_Witness ==
    /\ pc["s1"] = "returned"
    /\ resp["s1"].ok
    /\ resp["s1"].reviews = <<>>
    /\ resp["s1"].cursor # <<>>
    /\ yielded["s1"] # {}

\* C5: a non-success response makes the session raise at its next step; a
\* session that raised stays so, issues no request, and its caller's rows are
\* never assigned, whatever the generator had yielded before.
C5_NonSuccessAborts ==
    [][\A s \in Sessions :
        /\ (pc[s] = "raise_for_status" /\ ~resp[s].ok /\ pc'[s] # pc[s]) => pc'[s] = "raised"
        /\ ~resp'[s].ok => pc'[s] \in {"raise_for_status", "raised"}
        /\ pc'[s] = "raised" => rows'[s] = <<>>
        /\ pc[s] = "raised" =>
              /\ pc'[s] = "raised"
              /\ sent'[s] = sent[s]
              /\ resp'[s] = resp[s]
              /\ yielded'[s] = yielded[s]]_vars

\* C5 witness: the fetch failed after records of earlier pages were yielded.
C5_Witness ==
    /\ pc["s1"] = "raised"
    /\ yielded["s1"] # {}
    /\ rows["s1"] = <<>>

\* The latest page of session s has been processed in full and has passed the
\* stop test.
PageProcessed(s) ==
    /\ resp[s].ok
    /\ resp[s].reviews # <<>>
    /\ idx[s] = Len(resp[s].reviews) + 1
    /\ \A i \in DOMAIN resp[s].reviews :
          InWindow(TimestampCreated(resp[s].reviews[i]), s)
              => Record(resp[s].reviews[i]) \in yielded[s]
    /\ OldestTsInBatch(s) >= start_ts[s]

\* The cursor the next request of session s is to carry: the start sentinel
\* for the first request; afterwards the cursor of the latest response, or the
\* latest request's own cursor when that response carried none.
ExpectedCursor(s) ==
    IF sent[s] = <<>> THEN StartCursor
    ELSE IF resp[s].cursor # <<>> THEN resp[s].cursor[1]
    ELSE sent[s][1]

\* C10 (as claimed): every request after the first carries the cursor that the
\* preceding response returned.
C10_CursorFromResponse ==
    \A s \in Sessions :
        (pc[s] = "get" /\ sent[s] # <<>>) => resp[s].cursor = <<cursor[s]>>

\* C10 (amended): each request carries ExpectedCursor; a request after the
\* first is issued only from the sleep, which follows only the cursor update,
\* which follows only a fully processed page that passed the stop test; and a
\* step of one session leaves every other session's cursor and latest request
\* as they were.
C10_SequentialCursor ==
    [][\A s \in Sessions :
        /\ (pc[s] = "get" /\ pc'[s] # "get") =>
              /\ cursor[s] = ExpectedCursor(s)
              /\ sent'[s] = <<cursor[s]>>
        /\ (pc'[s] = "get" /\ pc[s] # "get") => pc[s] = "sleep"
        /\ (pc'[s] = "sleep" /\ pc[s] # "sleep") => pc[s] = "advance"
        /\ (pc'[s] = "advance" /\ pc[s] # "advance") => (pc[s] = "for" /\ PageProcessed(s))
        /\ pc'[s] \in {"advance", "sleep", "get"} /\ sent'[s] # <<>> => PageProcessed(s)'
        /\ pc'[s] = pc[s] /\ idx'[s] = idx[s] =>
              /\ cursor'[s] = cursor[s]
              /\ sent'[s] = sent[s]]_vars

\* C10 witness: both sessions are about to issue a later request, with
\* different cursors; the first re-sends its cursor after a response without
\* one, the second sends the cursor its own response returned.
C10_Witness ==
    /\ pc["s1"] = "get" /\ pc["s2"] = "get"
    /\ sent["s1"] # <<>> /\ sent["s2"] # <<>>
    /\ resp["s1"].cursor = <<>> /\ cursor["s1"] = sent["s1"][1]
    /\ resp["s2"].cursor = <<cursor["s2"]>>
    /\ cursor["s1"] # cursor["s2"]

\* ------------------------------------------- claims: sampler and aggregator

\* The positions of frame d whose row falls in month m.
RowsOfMonth(d, m) == {i \in DOMAIN d : d[i].month = m}

\* The rows of frame d, as a set.
RowSet(d) == {d[i] : i \in DOMAIN d}

\* C6 (as claimed): after a month's rows are removed and the frame is sampled
\* again with the same seed, every other month has the sub-seed, and the
\* sampled rows, it had before.
C6_SubSeedPerMonth ==
    (fpc = "sampled" /\ prev # <<>> /\ ~by_top_helpful) =>
        \A m \in DOMAIN subseeds :
            /\ subseeds[m] = prev[1].subseeds[m]
            /\ {sampled[i] : i \in RowsOfMonth(sampled, m)}
                  = {prev[1].sampled[i] : i \in RowsOfMonth(prev[1].sampled, m)}

\* C7: in both modes the sample holds, for every month, exactly
\* min(n_per_month, size of the month's group) rows, pairwise distinct and all
\* rows of that month in the input; an empty frame gives an empty sample.
C7_QuotaPerMonth ==
    fpc = "sampled" =>
        /\ \A m \in 1..MaxMonth :
              /\ Cardinality(RowsOfMonth(sampled, m))
                    = Min(n_per_month, Cardinality(RowsOfMonth(df, m)))
              /\ \A i, j \in RowsOfMonth(sampled, m) : i # j => sampled[i] # sampled[j]
              /\ \A i \in RowsOfMonth(sampled, m) : \E j \in RowsOfMonth(df, m) : df[j] = sampled[i]
        /\ \A i \in DOMAIN sampled : sampled[i].month \in 1..MaxMonth
        /\ df = <<>> => sampled = <<>>

\* C7 witness: a random sample that cut one month's group down to
\* n_per_month, did not take the group's first row, and kept another month too.
C7_Witness ==
    /\ fpc = "sampled"
    /\ ~by_top_helpful
    /\ removed = <<>>
    /\ n_per_month >= 1
    /\ \E m \in 1..MaxMonth :
          /\ Cardinality(RowsOfMonth(df, m)) > n_per_month
          /\ df[CHOOSE i \in RowsOfMonth(df, m) : \A j \in RowsOfMonth(df, m) : i <= j]
                \notin RowSet(sampled)
    /\ \E m \in 1..MaxMonth :
          /\ RowsOfMonth(df, m) # {}
          /\ Cardinality(RowsOfMonth(df, m)) <= n_per_month

\* C8: in top-helpful mode the rows kept of a month are the first n_per_month
\* of the month's rows ordered by votes_up descending, rows with equal votes_up
\* in the order they have in the input: every kept row has more votes_up than
\* every dropped row of its month, or as many and an earlier place in the
\* input, and the kept rows of a month come out in that same order.
C8_TopHelpfulStable ==
    (fpc = "sampled" /\ by_top_helpful) =>
        /\ \A m \in 1..MaxMonth :
              Cardinality(RowsOfMonth(sampled, m))
                  = Min(n_per_month, Cardinality(RowsOfMonth(df, m)))
        /\ RowSet(sampled) \subseteq RowSet(df)
        /\ \A i, j \in DOMAIN df :
              (df[i].month = df[j].month /\ df[i] \in RowSet(sampled) /\ df[j] \notin RowSet(sampled))
                  => \/ df[i].votes_up > df[j].votes_up
                     \/ df[i].votes_up = df[j].votes_up /\ i < j
        /\ \A p, q \in DOMAIN sampled :
              (p < q /\ sampled[p].month = sampled[q].month)
                  => \/ sampled[p].votes_up > sampled[q].votes_up
                     \/ /\ sampled[p].votes_up = sampled[q].votes_up
                        /\ sampled[p].recommendationid < sampled[q].recommendationid

\* C8 witness: a month in which two rows tie at the cut, the earlier kept and
\* the later dropped, and a kept row that stands after a dropped one in the
\* input.
C8_Witness ==
    /\ fpc = "sampled"
    /\ by_top_helpful
    /\ \E i, j \in DOMAIN df :
          /\ i < j
          /\ df[i].month = df[j].month
          /\ df[i].votes_up = df[j].votes_up
          /\ df[i] \in RowSet(sampled)
          /\ df[j] \notin RowSet(sampled)
    /\ \E i, j \in DOMAIN df :
          /\ i < j
          /\ df[i].month = df[j].month
          /\ df[i] \notin RowSet(sampled)
          /\ df[j] \in RowSet(sampled)

====
